---- MODULE Spec2Model ----
(***************************************************************************)
(* Model of homeassistant/components/tibber/sensor.py: the real-time       *)
(* coordinator and its sensors, the price sensor and the platform setup.   *)
(* Python's None is the empty tuple << >>; an optional value x is <<x>>.   *)
(* Measurement values are numbers; a missing value is NoValue.             *)
(***************************************************************************)
EXTENDS Integers, Sequences, FiniteSets, TLC

VARIABLES
    data,            \* TibberRtDataCoordinator.data: << >> (None) or <<payload>>
    all_sensors,     \* TibberRtDataCoordinator._all_sensors: the descriptors, by key
    sensors,         \* the TibberSensorRT entities added to the host, by key
    added,           \* unique_id -> number of entities with it passed to async_add_entities
    listening,       \* the _add_sensors listener is still registered
    wrote,           \* keys whose entity called async_write_ha_state in the last update
    created_now,     \* keys whose entity was created by the last update
    moved,           \* keys whose entity's last_reset changed in the last update
    last_pf,         \* most recent powerFactor fraction of an error-free measurement
    clock,           \* the wall clock, in ticks
    \* TibberSensorElPrice and its home
    tnow,            \* dt_util.now() of the latest async_update, minutes since midnight
    home,            \* tibber_home: last_data_timestamp and current_price_total
    price,           \* the sensor: state, price_level, last_updated, available, unit
    spread,          \* _spread_load_constant, seconds
    throttle,        \* the Throttle of _fetch_data: time of the last let-through call
    vendor,          \* update_info_and_price_info: time of the last execution, their
                     \* number (up to 2) and the smallest gap between two of them
    upd,             \* what the latest async_update did
    turn,            \* flips at every async_update
    \* async_setup_entry
    homes,           \* tibber_connection.get_homes(only_active=False), after update_info
    setup,           \* the running invocation: pc, loop index, entities, attempt number
    rt_subscribed,   \* per home: calls of home.rt_subscribe with a new coordinator
    registry,        \* per home: the id its entity and device registry entries carry
    migrations,      \* per home: registry updates applied
    add_calls        \* the lists this invocation passed to async_add_entities

rtvars == <<data, all_sensors, sensors, added, listening, wrote, created_now, moved, last_pf, clock>>

pricevars == <<tnow, home, price, spread, throttle, vendor, upd, turn>>

setupvars == <<homes, setup, rt_subscribed, registry, migrations, add_calls>>

vars == <<rtvars, pricevars, setupvars>>

\* ---------------------------------------------------------------- bounds
MaxValue == 2
MaxTick == 3
UtcOffset == 1

NoValue == -1

\* ---------------------------------------------------------------- metadata
Desc(k, n, r) == [key |-> k, name |-> n, reset_type |-> r]

RT_SENSORS ==
    << Desc("averagePower", "average power", "None"),
       Desc("power", "power", "None"),
       Desc("powerProduction", "power production", "None"),
       Desc("minPower", "min power", "None"),
       Desc("maxPower", "max power", "None"),
       Desc("accumulatedConsumption", "accumulated consumption", "DAILY"),
       Desc("accumulatedConsumptionLastHour", "accumulated consumption current hour", "HOURLY"),
       Desc("accumulatedProduction", "accumulated production", "DAILY"),
       Desc("accumulatedProductionLastHour", "accumulated production current hour", "HOURLY"),
       Desc("lastMeterConsumption", "last meter consumption", "None"),
       Desc("lastMeterProduction", "last meter production", "None"),
       Desc("voltagePhase1", "voltage phase1", "None"),
       Desc("voltagePhase2", "voltage phase2", "None"),
       Desc("voltagePhase3", "voltage phase3", "None"),
       Desc("currentL1", "current L1", "None"),
       Desc("currentL2", "current L2", "None"),
       Desc("currentL3", "current L3", "None"),
       Desc("signalStrength", "signal strength", "None"),
       Desc("accumulatedReward", "accumulated reward", "DAILY"),
       Desc("accumulatedCost", "accumulated cost", "DAILY"),
       Desc("powerFactor", "power factor", "None") >>

Keys == {RT_SENSORS[i].key : i \in 1..Len(RT_SENSORS)}

DescByKey == [k \in Keys |-> CHOOSE d \in {RT_SENSORS[i] : i \in 1..Len(RT_SENSORS)} : d.key = k]

DescOf(k) == DescByKey[k]

\* The keys the meter of the modelled home reports; every other key of a
\* liveMeasurement is absent, so live_measurement.get(key) is None for it.
ReportedKeys == {"accumulatedConsumption", "accumulatedConsumptionLastHour", "powerFactor"}

\* ---------------------------------------------------------------- datetimes
\* A timezone-aware datetime: its local fields and its UTC offset in hours.
\* The wall-clock readings of the model: every half hour from 23:00 of day 1,
\* local time, so that the hour and the day change within MaxTick. The time
\* zone of the installation and of the measurements is UTC+UtcOffset hours.
now_at(i) ==
    LET local == (24 + 23) * 60 + 30 * i IN
    [day |-> local \div (24 * 60), hour |-> (local \div 60) % 24,
     minute |-> local % 60, off |-> UtcOffset]

\* dt_util.as_utc: the instant, in minutes since the epoch.
as_utc(dt) == ((dt.day * 24 + dt.hour) - dt.off) * 60 + dt.minute

\* datetime.replace(hour=0, minute=0, second=0, microsecond=0)
replace_day(dt) == [dt EXCEPT !.hour = 0, !.minute = 0]

\* datetime.replace(minute=0, second=0, microsecond=0)
replace_hour(dt) == [dt EXCEPT !.minute = 0]

\* ---------------------------------------------------------------- payloads
\* The values a liveMeasurement may carry for key k: None or a positive
\* reading; powerFactor is reported as the fraction MaxValue/100 or not at all.
ValuesOf(k) ==
    IF k = "powerFactor" THEN {NoValue, MaxValue} ELSE {NoValue} \cup 1..MaxValue

\* A liveMeasurement taken at datetime now. One whose timestamp string does not
\* parse (dt_util.parse_datetime then returns None) reports the same reading
\* for every key.
LiveMeasurements(now) ==
    [timestamp : {<<now>>},
     values : {v \in [ReportedKeys -> {NoValue} \cup 1..MaxValue] :
                 \A k \in ReportedKeys : v[k] \in ValuesOf(k)}]
    \cup [timestamp : {<< >>}, values : {[k \in ReportedKeys |-> v] : v \in 1..MaxValue}]

\* The payloads delivered at datetime now: error-free ones with or without a
\* liveMeasurement, and ones with an errors list, with or without a
\* liveMeasurement (one that reports the same value for every key).
Payloads(now) ==
    [errors : {FALSE}, lm : {<< >>} \cup {<<m>> : m \in LiveMeasurements(now)}]
    \cup [errors : {TRUE},
          lm : {<< >>} \cup {<<[timestamp |-> <<now>>, values |-> [k \in ReportedKeys |-> v]]>> :
                                v \in 1..MaxValue}]

\* live_measurement.get(key)
Get(m, k) == IF k \in DOMAIN m.values THEN m.values[k] ELSE NoValue

\* get_live_measurement without the check of the errors list
get_live_measurement_ignoring_errors(d) == d[1].lm

\* TibberRtDataCoordinator.get_live_measurement
get_live_measurement(d) ==
    IF d[1].errors THEN << >> ELSE d[1].lm

\* ---------------------------------------------------------------- TibberSensorRT
unique_id(desc) == <<"home_id", "rt", desc.name>>

\* TibberSensorRT.__init__: now is dt_util.now()
InitLastReset(desc, now) ==
    IF desc.reset_type = "NEVER" THEN <<0>>
    ELSE IF desc.reset_type = "DAILY" THEN <<as_utc(replace_day(now))>>
    ELSE IF desc.reset_type = "HOURLY" THEN <<as_utc(replace_hour(now))>>
    ELSE << >>

NewSensorRT(desc, initial_state, now) ==
    [state |-> initial_state, last_reset |-> InitLastReset(desc, now)]

\* the reset test written with <= instead of <
NextLastResetOnEqual(desc, s, state, timestamp) ==
    IF timestamp # << >> /\ state <= s.state
    THEN IF desc.reset_type = "DAILY" THEN <<as_utc(replace_day(timestamp[1]))>>
         ELSE IF desc.reset_type = "HOURLY" THEN <<as_utc(replace_hour(timestamp[1]))>>
         ELSE s.last_reset
    ELSE s.last_reset

\* the last_reset computed by _handle_coordinator_update
NextLastReset(desc, s, state, timestamp) ==
    IF timestamp # << >> /\ state < s.state
    THEN IF desc.reset_type = "DAILY" THEN <<as_utc(replace_day(timestamp[1]))>>
         ELSE IF desc.reset_type = "HOURLY" THEN <<as_utc(replace_hour(timestamp[1]))>>
         ELSE s.last_reset
    ELSE s.last_reset

\* the state stored by _handle_coordinator_update
NextState(desc, state) == IF desc.key = "powerFactor" THEN state * 100 ELSE state

\* TibberSensorRT._handle_coordinator_update on entity s; the result says
\* whether async_write_ha_state was called.
handle_coordinator_update(desc, s, d) ==
    LET lm == get_live_measurement(d) IN
    IF lm = << >> THEN [sensor |-> s, wrote |-> FALSE]
    ELSE LET state == Get(lm[1], desc.key) IN
         IF state = NoValue THEN [sensor |-> s, wrote |-> FALSE]
         ELSE [sensor |-> [state |-> NextState(desc, state),
                           last_reset |-> NextLastReset(desc, s, state, lm[1].timestamp)],
               wrote |-> TRUE]

\* ---------------------------------------------------------------- TibberRtDataCoordinator
\* _add_sensors without self._all_sensors.remove(sensor_description)
RemoveNothing(list, x) == list

\* index of the first element of list equal to x, from index i on
RECURSIVE IndexFrom(_, _, _)
IndexFrom(list, x, i) == IF list[i] = x THEN i ELSE IndexFrom(list, x, i + 1)

\* list.remove(x): drops the first element equal to x
Remove(list, x) ==
    LET i == IndexFrom(list, x, 1)
    IN SubSeq(list, 1, i - 1) \o SubSeq(list, i + 1, Len(list))

\* the loop with break in the place of continue
RECURSIVE AddLoopBreak(_, _, _, _)
AddLoopBreak(list, i, new, m) ==
    IF i > Len(list) THEN [list |-> list, new |-> new]
    ELSE LET sensor_description == list[i] IN
         IF Get(m, sensor_description) = NoValue
         THEN [list |-> list, new |-> new]
         ELSE AddLoopBreak(Remove(list, sensor_description), i + 1,
                           Append(new, sensor_description), m)

\* The for loop of _add_sensors over self._all_sensors, which it mutates:
\* the list iterator holds an index and reads list[i] while i < len(list).
RECURSIVE AddLoop(_, _, _, _)
AddLoop(list, i, new, m) ==
    IF i > Len(list) THEN [list |-> list, new |-> new]
    ELSE LET sensor_description == list[i] IN
         IF Get(m, sensor_description) = NoValue
         THEN AddLoop(list, i + 1, new, m)
         ELSE AddLoop(Remove(list, sensor_description), i + 1,
                      Append(new, sensor_description), m)

\* TibberRtDataCoordinator._add_sensors
add_sensors(list, d) ==
    LET lm == get_live_measurement(d) IN
    IF lm = << >> THEN [list |-> list, new |-> << >>]
    ELSE AddLoop(list, 1, << >>, lm[1])

\* self._async_add_entities(new_entities), called only with a non-empty list:
\* the host is handed one more entity for each unique_id of the list.
RECURSIVE async_add_entities(_, _)
async_add_entities(reg, new) ==
    IF new = << >> THEN reg
    ELSE LET u == unique_id(DescOf(Head(new))) IN
         async_add_entities(IF u \in DOMAIN reg THEN [reg EXCEPT ![u] = @ + 1]
                            ELSE reg @@ (u :> 1), Tail(new))

\* DataUpdateCoordinator.async_set_updated_data(payload): stores the data and
\* calls the listeners in registration order: _add_sensors (while registered),
\* then the entities added before this update. now is dt_util.now().
Update(p, now) ==
    \E d \in {<<p>>} :
    \E r \in {IF listening THEN add_sensors(all_sensors, d)
               ELSE [list |-> all_sensors, new |-> << >>]} :
    \E newkeys \in {{r.new[i] : i \in 1..Len(r.new)}} :
    \E lm \in {get_live_measurement(d)} :
    \E old \in {DOMAIN sensors} :
    \E h \in {[k \in old |-> handle_coordinator_update(DescOf(k), sensors[k], d)]} :
       /\ data' = d
       /\ all_sensors' = r.list
       /\ sensors' = [k \in old \cup newkeys |->
             IF k \in old THEN h[k].sensor
             ELSE NewSensorRT(DescOf(k), Get(lm[1], k), now)]
       /\ added' = async_add_entities(added, r.new)
       /\ wrote' = {k \in old : h[k].wrote}
       /\ created_now' = newkeys
       /\ moved' = {k \in old : h[k].sensor.last_reset # sensors[k].last_reset}
       /\ last_pf' = IF lm # << >> /\ Get(lm[1], "powerFactor") # NoValue
                     THEN Get(lm[1], "powerFactor") ELSE last_pf
       /\ UNCHANGED <<listening, pricevars, setupvars>>

\* A payload arrives at the current tick of the clock or at the next one; a
\* longer gap is a run of payloads without a liveMeasurement.
UpdateData ==
    \E t \in {clock, clock + 1} \cap (0..MaxTick) :
    \E now \in {now_at(t)} :
    \E p \in Payloads(now) :
        Update(p, now) /\ clock' = t

\* TibberRtDataCoordinator._handle_ha_stop
HandleHaStop ==
    /\ listening
    /\ listening' = FALSE
    /\ wrote' = {}
    /\ created_now' = {}
    /\ moved' = {}
    /\ UNCHANGED <<data, all_sensors, sensors, added, last_pf, clock, pricevars, setupvars>>

InitRT ==
    /\ data = << >>
    /\ all_sensors = [i \in 1..Len(RT_SENSORS) |-> RT_SENSORS[i].key]
    /\ sensors = << >>
    /\ added = << >>
    /\ listening = TRUE
    /\ wrote = {}
    /\ created_now = {}
    /\ moved = {}
    /\ last_pf = NoValue
    /\ clock = 0

NextRT == UpdateData \/ HandleHaStop

\* ---------------------------------------------------------------- TibberSensorElPrice
MIN_TIME_BETWEEN_UPDATES == 5

\* homeassistant.util.Throttle(min_time): a call at time t is let through when
\* no call was let through before or the last one is more than min_time ago.
Throttle(last, t, min_time) == last = << >> \/ t - last[1] > min_time

\* randrange(5000): the values of _spread_load_constant the model tries
SpreadChoices == {0, 4999}

\* datetime.hour of a time in minutes
HourOf(t) == (t \div 60) % 24

\* the first condition without "or not self.available"
AskForNewDataIfStale(t) ==
    \/ home.last_data_timestamp = << >>
    \/ (home.last_data_timestamp[1] - t) * 60 < 5 * 3600 + spread

\* the first condition of async_update: new data is asked for
AskForNewData(t) ==
    \/ home.last_data_timestamp = << >>
    \/ (home.last_data_timestamp[1] - t) * 60 < 5 * 3600 + spread
    \/ ~price.available

\* the elif condition of async_update: nothing to do
NothingToDo(t) ==
    /\ home.current_price_total # << >> /\ home.current_price_total[1] # 0
    /\ price.last_updated # << >>
    /\ HourOf(price.last_updated[1]) = HourOf(t)
    /\ home.last_data_timestamp # << >>

\* _fetch_data without its decorator
FetchRunsUnthrottled(t) == TRUE

\* @Throttle(MIN_TIME_BETWEEN_UPDATES) on _fetch_data: the body runs
FetchRuns(t) == Throttle(throttle, t, MIN_TIME_BETWEEN_UPDATES)

\* the end of the price data the vendor may hold (last_data_timestamp)
PriceDataEnds == {<< >>, <<358>>, <<450>>}

\* what the home may hold after update_info_and_price_info succeeded
HomesAfterFetch ==
    [last_data_timestamp : PriceDataEnds, current_price_total : {<< >>, <<0>>, <<1>>}]

\* what tibber_home.current_price_data() may return at time t: no price for
\* the current hour, or the price, its level and the start of the hour
PriceData(t) ==
    {[state |-> << >>, level |-> << >>, time |-> << >>]}
    \cup {[state |-> <<p>>, level |-> <<"NORMAL">>, time |-> <<t - (t % 60)>>] : p \in 0..1}

\* bookkeeping of an execution of update_info_and_price_info at time t
VendorCall(t) ==
    [last |-> <<t>>,
     count |-> IF vendor.count < 2 THEN vendor.count + 1 ELSE 2,
     gap |-> IF vendor.last = << >> THEN vendor.gap
             ELSE IF vendor.gap = << >> \/ t - vendor.last[1] < vendor.gap[1]
                  THEN <<t - vendor.last[1]>> ELSE vendor.gap]

\* TibberSensorElPrice.async_update at time t; ok says whether the vendor call
\* succeeds, h is the home after a successful call, res the answer of
\* current_price_data()
async_update(t, ok, h, res) ==
    LET ask == AskForNewData(t)
        runs == ask /\ FetchRuns(t)
        skip == ~ask /\ NothingToDo(t)
    IN /\ tnow' = t
       /\ turn' = ~turn
       /\ throttle' = IF runs THEN <<t>> ELSE throttle
       /\ vendor' = IF runs THEN VendorCall(t) ELSE vendor
       /\ home' = IF runs /\ ok THEN h ELSE home
       /\ price' = IF skip THEN price
                   ELSE [state |-> res.state, price_level |-> res.level,
                         last_updated |-> res.time, available |-> res.state # << >>,
                         unit |-> <<"price_unit">>]
       /\ upd' = [asked |-> ask, fetched |-> runs, returned |-> skip,
                  res |-> IF skip THEN << >> ELSE <<res>>]
       /\ UNCHANGED spread

MaxElapsed == 8
MaxStep == 6

AsyncUpdate == \E t \in tnow..(tnow + MaxStep) :
    /\ t <= 55 + MaxElapsed
    /\ \E ok \in BOOLEAN : \E h \in HomesAfterFetch : \E res \in PriceData(t) :
          async_update(t, ok, h, res)
    /\ UNCHANGED <<rtvars, setupvars>>

\* TibberSensorElPrice.__init__, at 00:55
InitPrice ==
    /\ tnow = 55
    /\ home \in HomesAfterFetch
    /\ price = [state |-> << >>, price_level |-> << >>, last_updated |-> << >>,
                available |-> FALSE, unit |-> << >>]
    /\ spread \in SpreadChoices
    /\ throttle = << >>
    /\ vendor = [last |-> << >>, count |-> 0, gap |-> << >>]
    /\ upd = [asked |-> FALSE, fetched |-> FALSE, returned |-> FALSE, res |-> << >>]
    /\ turn = FALSE

\* ---------------------------------------------------------------- async_setup_entry
NumHomes == 2
MaxAttempts == 2

\* A home as update_info leaves it: has_active_subscription,
\* has_real_time_consumption, and its consumptionEan: None ("none"), or an id
\* that the registries do not know ("unknown") or know ("registered").
HomeConfigs == [active : BOOLEAN, real_time : BOOLEAN,
                old_id : {"none", "unknown", "registered"}]

\* the append without the test of has_active_subscription
PriceEntitiesForAll(entities, i) == Append(entities, i)

\* entities.append(TibberSensorElPrice(home)) for a home with a subscription
PriceEntities(entities, i) ==
    IF homes[i].active THEN Append(entities, i) ELSE entities

\* the rt_subscribe call for a home with real-time consumption
RtSubscribe(subs, i) ==
    IF homes[i].real_time THEN [subs EXCEPT ![i] = @ + 1] ELSE subs

\* the migration of the entity and device registry entries of home i
Migrate(reg, i) ==
    IF homes[i].old_id = "none" THEN reg
    ELSE [reg EXCEPT ![i] = [entity |-> IF @.entity = "old_id" THEN "home_id" ELSE @.entity,
                             device |-> IF @.device = "old_id" THEN "home_id" ELSE @.device]]

\* number of registry updates Migrate applies for home i
MigrationUpdates(reg, i) ==
    IF homes[i].old_id = "none" THEN 0
    ELSE (IF reg[i].entity = "old_id" THEN 1 ELSE 0) + (IF reg[i].device = "old_id" THEN 1 ELSE 0)

\* async_setup_entry is called by the host, again after PlatformNotReady
SetupStart ==
    /\ setup.pc \in {"idle", "not_ready"}
    /\ setup.attempt < MaxAttempts
    /\ setup' = [pc |-> "loop", i |-> 1, entities |-> << >>, attempt |-> setup.attempt + 1]
    /\ add_calls' = << >>
    /\ UNCHANGED <<homes, rt_subscribed, registry, migrations, rtvars, pricevars>>

\* one iteration of the loop over the homes; result is what update_info does
SetupHome == \E result \in {"ok", "TimeoutError", "ClientError"} :
    /\ setup.pc = "loop" /\ setup.i <= Len(homes)
    /\ IF result # "ok"
       THEN /\ setup' = [setup EXCEPT !.pc = "not_ready"]
            /\ UNCHANGED <<rt_subscribed, registry, migrations>>
       ELSE /\ setup' = [setup EXCEPT !.i = @ + 1,
                                      !.entities = PriceEntities(@, setup.i)]
            /\ rt_subscribed' = RtSubscribe(rt_subscribed, setup.i)
            /\ registry' = Migrate(registry, setup.i)
            /\ migrations' = [migrations EXCEPT ![setup.i] = @ + MigrationUpdates(registry, setup.i)]
    /\ UNCHANGED <<homes, add_calls, rtvars, pricevars>>

\* async_add_entities(entities, True) after the loop
SetupFinish ==
    /\ setup.pc = "loop" /\ setup.i > Len(homes)
    /\ add_calls' = Append(add_calls, setup.entities)
    /\ setup' = [setup EXCEPT !.pc = "done"]
    /\ UNCHANGED <<homes, rt_subscribed, registry, migrations, rtvars, pricevars>>

InitSetup ==
    /\ homes \in [1..NumHomes -> HomeConfigs]
    /\ setup = [pc |-> "idle", i |-> 1, entities |-> << >>, attempt |-> 0]
    /\ rt_subscribed = [i \in 1..NumHomes |-> 0]
    /\ registry = [i \in 1..NumHomes |->
           IF homes[i].old_id = "registered"
           THEN [entity |-> "old_id", device |-> "old_id"]
           ELSE [entity |-> "absent", device |-> "absent"]]
    /\ migrations = [i \in 1..NumHomes |-> 0]
    /\ add_calls = << >>

NextSetup == SetupStart \/ SetupHome \/ SetupFinish

\* the components a specification leaves alone
IdleRT == InitRT
IdlePrice ==
    /\ InitPrice
    /\ home = [last_data_timestamp |-> << >>, current_price_total |-> << >>]
    /\ spread = 0
IdleSetup ==
    /\ InitSetup
    /\ \A i \in 1..NumHomes : homes[i] = [active |-> TRUE, real_time |-> TRUE, old_id |-> "none"]

\* one coordinator with its sensors
StartRT == InitRT /\ IdlePrice /\ IdleSetup
SpecRT == StartRT /\ [][NextRT]_vars

\* one price sensor
StartPrice == InitPrice /\ IdleRT /\ IdleSetup
NextPrice == AsyncUpdate
SpecPrice == StartPrice /\ [][NextPrice]_vars

\* the platform setup
StartSetup == InitSetup /\ IdleRT /\ IdlePrice
SpecSetup == StartSetup /\ [][NextSetup]_vars

\* Registration depends neither on the values nor on the time of a
\* measurement: the specification of the registration's progress delivers, at
\* a fixed time, measurements whose keys are absent or MaxValue, payloads
\* without liveMeasurement and payloads with errors.
ProgressPayloads(now) ==
    {[errors |-> e, lm |-> <<[timestamp |-> <<now>>, values |-> v]>>] :
        e \in BOOLEAN, v \in [ReportedKeys -> {NoValue, MaxValue}]}
    \cup {[errors |-> FALSE, lm |-> << >>]}

ProgressUpdate == \E p \in ProgressPayloads(now_at(clock)) :
    Update(p, now_at(clock)) /\ clock' = clock

\* An error-free measurement that reports every key of the meter.
FullUpdate == \E p \in ProgressPayloads(now_at(clock)) :
    /\ ~p.errors /\ p.lm # << >>
    /\ \A k \in ReportedKeys : p.lm[1].values[k] # NoValue
    /\ Update(p, now_at(clock)) /\ clock' = clock

NextProgress == ProgressUpdate \/ HandleHaStop

\* Measurements keep being delivered while the subscription runs.
FairSpecRT == StartRT /\ [][NextProgress]_vars /\ WF_vars(FullUpdate)

\* ---------------------------------------------------------------- claims (real time)
\* the liveMeasurement of an error-free payload, << >> when the coordinator
\* data d is None, has errors or has no liveMeasurement
UsableLm(d) == IF d = << >> \/ d[1].errors THEN << >> ELSE d[1].lm

\* the value a coordinator data d has for key k, NoValue when it has none
ValueOf(d, k) ==
    IF UsableLm(d) = << >> \/ k \notin DOMAIN UsableLm(d)[1].values THEN NoValue
    ELSE UsableLm(d)[1].values[k]

\* C1: once the powerFactor entity exists, its state is 100 times the most
\* recent non-None powerFactor fraction delivered in a live measurement,
\* the one used as its initial state included.
C1_PowerFactorIsPercentage ==
    "powerFactor" \in DOMAIN sensors => sensors["powerFactor"].state = 100 * last_pf

\* C2 as stated: an update with a non-None value for the sensor's key changes
\* last_reset if and only if the reset type is DAILY or HOURLY, the timestamp
\* parses and the value is strictly lower than the stored state.
ResetCondition(k, s, d) ==
    /\ DescOf(k).reset_type \in {"DAILY", "HOURLY"}
    /\ d[1].lm[1].timestamp # << >>
    /\ d[1].lm[1].values[k] < s.state

\* start of the local day / hour of a datetime, as a UTC instant in minutes
StartOfDayUtc(dt) == (dt.day * 24 - dt.off) * 60
StartOfHourUtc(dt) == (dt.day * 24 + dt.hour - dt.off) * 60

C2_ChangesIffLower ==
    [][\A k \in wrote' :
          (sensors'[k].last_reset # sensors[k].last_reset)
              <=> ResetCondition(k, sensors[k], data')]_vars

\* C2 amended: last_reset is set to the start of the day (DAILY) or hour
\* (HOURLY) of the measurement timestamp exactly when the reset type is DAILY
\* or HOURLY, the timestamp parses and the value is strictly lower than the
\* stored state; in every other case it keeps its value.
C2_ResetIffLower ==
    [][\A k \in wrote' :
          IF ResetCondition(k, sensors[k], data')
          THEN sensors'[k].last_reset =
                 IF DescOf(k).reset_type = "DAILY"
                 THEN <<StartOfDayUtc(data'[1].lm[1].timestamp[1])>>
                 ELSE <<StartOfHourUtc(data'[1].lm[1].timestamp[1])>>
          ELSE sensors'[k].last_reset = sensors[k].last_reset]_vars

\* a daily and an hourly counter have both just moved their last_reset
C2_Witness ==
    /\ "accumulatedConsumption" \in moved
    /\ "accumulatedConsumptionLastHour" \in moved

\* C3: at most one entity is created per descriptor, no unique_id is handed
\* to async_add_entities twice, and a descriptor with an entity is no longer
\* in _all_sensors.
C3_OneEntityPerDescriptor ==
    /\ \A u \in DOMAIN added : added[u] = 1
    /\ DOMAIN added = {unique_id(DescOf(k)) : k \in DOMAIN sensors}
    /\ Cardinality(DOMAIN added) = Cardinality(DOMAIN sensors)
    /\ \A i \in 1..Len(all_sensors) : all_sensors[i] \notin DOMAIN sensors

C3_Witness ==
    /\ DOMAIN sensors = ReportedKeys
    /\ created_now = {}
    /\ wrote = ReportedKeys

\* C6: after a run of _add_sensors on an error-free payload, every descriptor
\* whose key has a non-None value in the liveMeasurement has an entity.
C6_AllReportedHaveEntity ==
    listening => \A k \in Keys : ValueOf(data, k) # NoValue => k \in DOMAIN sensors

\* C7: while the listener is registered and full measurements keep coming,
\* every reported descriptor eventually has an entity; and a run of
\* _add_sensors that sees an unregistered descriptor with a non-None value
\* creates at least one entity.
C7_EventuallyRegistered ==
    /\ <>(~listening \/ ReportedKeys \subseteq DOMAIN sensors)
    /\ [][(listening /\ listening'
              /\ \E i \in 1..Len(all_sensors) : ValueOf(data', all_sensors[i]) # NoValue)
           => created_now' # {}]_vars

C7_Witness ==
    /\ listening
    /\ ReportedKeys \subseteq DOMAIN sensors
    /\ created_now # {}

\* C8: an update with errors, without liveMeasurement or without a value for
\* a sensor's key leaves that sensor's state and last_reset alone and writes
\* no state; an update with errors creates no entity.
C8_NoEffectWithoutValue ==
    [][/\ \A k \in DOMAIN sensors :
            ValueOf(data', k) = NoValue
            => (k \in DOMAIN sensors' /\ sensors'[k] = sensors[k] /\ k \notin wrote')
       /\ (data' # << >> /\ data'[1].errors /\ listening' = listening)
            => (DOMAIN sensors' = DOMAIN sensors /\ added' = added
                  /\ all_sensors' = all_sensors /\ created_now' = {})]_vars

\* an errors payload that carries a liveMeasurement reached existing sensors
\* and an unregistered descriptor
C8_Witness ==
    /\ data # << >> /\ data[1].errors /\ data[1].lm # << >>
    /\ "powerFactor" \in DOMAIN sensors
    /\ "accumulatedConsumption" \notin DOMAIN sensors
    /\ listening

\* ---------------------------------------------------------------- claims (price sensor)
\* C4: two executions of update_info_and_price_info by one sensor are at
\* least 5 minutes apart, and an async_update that fetched did so at its own
\* time; an update asking for data inside the window performs no fetch.
C4_FetchesFiveMinutesApart ==
    /\ vendor.gap # << >> => vendor.gap[1] >= 5
    /\ upd.fetched => (upd.asked /\ vendor.last = <<tnow>>)

\* two fetches were made and a later update asked for data inside the window
C4_Witness ==
    /\ vendor.count = 2
    /\ upd.asked /\ ~upd.fetched

\* C9: async_update returns early, touching nothing and asking for no data,
\* exactly when the data reaches at least 5 hours plus the spread past now,
\* the sensor is available, current_price_total is truthy and the hour is
\* that of _last_updated; otherwise it recomputes the state from
\* current_price_data() and sets availability to (state is not None). An
\* unavailable sensor always asks for data and recomputes.
C9_SkipCondition(t) ==
    /\ home.last_data_timestamp # << >>
    /\ (home.last_data_timestamp[1] - t) * 60 >= 5 * 3600 + spread
    /\ price.available
    /\ home.current_price_total \notin {<< >>, <<0>>}
    /\ price.last_updated # << >>
    /\ HourOf(price.last_updated[1]) = HourOf(t)

C9_SkipsOnlyWhenFresh ==
    [][turn' # turn =>
         /\ upd'.returned <=> C9_SkipCondition(tnow')
         /\ upd'.returned => (price' = price /\ ~upd'.asked /\ ~upd'.fetched)
         /\ ~upd'.returned =>
               /\ price'.state = upd'.res[1].state
               /\ price'.price_level = upd'.res[1].level
               /\ price'.last_updated = upd'.res[1].time
               /\ price'.available = (price'.state # << >>)
         /\ ~price.available => (upd'.asked /\ ~upd'.returned)]_vars

C9_Witness ==
    /\ upd.returned
    /\ vendor.count > 0

\* ---------------------------------------------------------------- claims (setup)
\* the homes with an active subscription, in the order of get_homes
RECURSIVE ActiveHomes(_)
ActiveHomes(n) ==
    IF n = 0 THEN << >>
    ELSE IF homes[n].active THEN Append(ActiveHomes(n - 1), n) ELSE ActiveHomes(n - 1)

\* C5: a setup that ends with PlatformNotReady has not called
\* async_add_entities; a setup that ends normally has called it exactly once,
\* with one price entity for each home with an active subscription.
C5_PriceEntitiesOnFullSuccess ==
    /\ setup.pc \in {"loop", "not_ready"} => add_calls = << >>
    /\ setup.pc = "done" => add_calls = <<ActiveHomes(NumHomes)>>

\* a retried setup ended normally with a price entity for some homes only
C5_Witness ==
    /\ setup.pc = "done" /\ setup.attempt = 2
    /\ Len(add_calls) = 1 /\ Len(add_calls[1]) = 1

\* C10: a setup that ends with PlatformNotReady has started no real-time
\* subscription and applied no registry migration, and no home ever gets more
\* than one real-time subscription.
C10_FailedSetupLeavesNothing ==
    /\ setup.pc = "not_ready" =>
          \A i \in 1..NumHomes : rt_subscribed[i] = 0 /\ migrations[i] = 0
    /\ \A i \in 1..NumHomes : rt_subscribed[i] <= 1

====
